---------------------------- MODULE Spec2Model ----------------------------
(***************************************************************************)
(* Model of scripts/ratio-for-kommunity.py: a straight-line script that    *)
(* reads a file of names, normalises each line, counts the lines whose     *)
(* normal form is in one of three hard-coded name sets and derives the     *)
(* male/female percentages.                                                *)
(*                                                                         *)
(* Characters are Unicode code points (naturals); a string is a sequence   *)
(* of code points.  Python floats are IEEE-754 doubles, modelled bit for   *)
(* bit: a 53-bit significand (most significant bit first) and the binary   *)
(* exponent of its leading bit, with round-to-nearest-even.                *)
(***************************************************************************)
EXTENDS Integers, Sequences, FiniteSets, TLC

VARIABLES
    file_status,     \* environment: can /mnt/data/names.txt be opened
    file_lines,      \* environment: the lines of the file, as iteration yields them
    pc,              \* the statement the script is about to execute
    exception,       \* the uncaught exception that ended the script, or "none"
    bound,           \* the module-level names that have been assigned
    names,
    counts,
    male_count,
    female_count,
    excluded_count,
    total,
    male_ratio,
    female_ratio

vars ==
    <<file_status, file_lines, pc, exception, bound, names, counts, male_count,
      female_count, excluded_count, total, male_ratio, female_ratio>>

---------------------------------------------------------------------------
(* Bounds of the model.                                                    *)

\* Longest names file explored by Spec (lines drawn freely from RawLines).
MaxLines == 4

\* Largest number of male lines, and of female lines, explored by SpecCounts.
MaxCount == 12

---------------------------------------------------------------------------
(* Line 6: n.strip().lower() and re.sub(r"[^a-zA-Z...]+", "", ...)         *)

\* str.strip() with no argument removes the characters for which
\* str.isspace() is true.
Whitespace ==
    {9, 10, 11, 12, 13, 28, 29, 30, 31, 32, 133, 160, 5760} \cup (8192..8202)
      \cup {8232, 8233, 8239, 8287, 12288}

RECURSIVE LStrip(_)
LStrip(s) ==
    IF s # <<>> /\ Head(s) \in Whitespace THEN LStrip(Tail(s)) ELSE s

RECURSIVE RStrip(_)
RStrip(s) ==
    IF s # <<>> /\ s[Len(s)] \in Whitespace
    THEN RStrip(SubSeq(s, 1, Len(s) - 1))
    ELSE s

Strip(s) == RStrip(LStrip(s))

\* str.lower() of one character, for ASCII and the Turkish capitals of the
\* allow-list.  U+0130 (capital dotted I) lowers to two code points:
\* i followed by U+0307 (combining dot above).
LowerChar(c) ==
    IF c \in 65..90 THEN <<c + 32>>
    ELSE IF c = 199 THEN <<231>>
    ELSE IF c = 214 THEN <<246>>
    ELSE IF c = 220 THEN <<252>>
    ELSE IF c = 286 THEN <<287>>
    ELSE IF c = 304 THEN <<105, 775>>
    ELSE IF c = 350 THEN <<351>>
    ELSE <<c>>

RECURSIVE Lower(_)
Lower(s) ==
    IF s = <<>> THEN <<>> ELSE LowerChar(Head(s)) \o Lower(Tail(s))

\* The characters the regular expression keeps: a-z, A-Z and the twelve
\* Turkish letters listed in the character class.
AllowedChars ==
    (97..122) \cup (65..90)
      \cup {287, 252, 351, 305, 246, 231, 286, 220, 350, 304, 214, 199}

IsAllowed(c) == c \in AllowedChars

\* re.sub of every run of characters outside the class by the empty string.
ReSub(s) == SelectSeq(s, IsAllowed)

Normalize(n) == ReSub(Lower(Strip(n)))

IsNonBlank(n) == Strip(n) # <<>>

\* The list comprehension of line 6 over the lines of the file.
RECURSIVE ReadNames(_)
ReadNames(lines) ==
    IF lines = <<>> THEN <<>>
    ELSE IF IsNonBlank(Head(lines))
         THEN <<Normalize(Head(lines))>> \o ReadNames(Tail(lines))
         ELSE ReadNames(Tail(lines))

\* Fault variant of DropEmpty: line 9 left out.
DropNothing(ns) == ns

\* Line 9: [n for n in names if n]
IsNonEmpty(n) == n # <<>>

DropEmpty(ns) == SelectSeq(ns, IsNonEmpty)

---------------------------------------------------------------------------
(* Lines 12-29: the three hard-coded name sets.                            *)

male_names ==
    {
      <<97, 104, 109, 101, 116>>,                    \* ahmet
      <<109, 101, 104, 109, 101, 116>>,              \* mehmet
      <<97, 108, 105>>,                              \* ali
      <<109, 117, 115, 116, 97, 102, 97>>,           \* mustafa
      <<109, 117, 114, 97, 116>>,                    \* murat
      <<98, 117, 114, 97, 107>>,                     \* burak
      <<101, 109, 114, 101>>,                        \* emre
      <<101, 110, 101, 115>>,                        \* enes
      <<102, 117, 114, 107, 97, 110>>,               \* furkan
      <<246, 109, 101, 114>>,                        \* [U+00F6]mer
      <<104, 97, 115, 97, 110>>,                     \* hasan
      <<104, 252, 115, 101, 121, 105, 110>>,         \* h[U+00FC]seyin
      <<105, 98, 114, 97, 104, 105, 109>>,           \* ibrahim
      <<121, 117, 115, 117, 102>>,                   \* yusuf
      <<107, 97, 100, 105, 114>>,                    \* kadir
      <<114, 97, 109, 97, 122, 97, 110>>,            \* ramazan
      <<115, 101, 108, 105, 109>>,                   \* selim
      <<104, 97, 108, 105, 108>>,                    \* halil
      <<102, 97, 116, 105, 104>>,                    \* fatih
      <<98, 97, 114, 305, 351>>,                     \* bar[U+0131][U+015F]
      <<98, 101, 114, 107, 97, 121>>,                \* berkay
      <<109, 101, 114, 116>>,                        \* mert
      <<107, 101, 114, 101, 109>>,                   \* kerem
      <<107, 97, 97, 110>>,                          \* kaan
      <<97, 108, 112, 101, 114>>,                    \* alper
      <<103, 246, 107, 104, 97, 110>>,               \* g[U+00F6]khan
      <<111, 110, 117, 114>>,                        \* onur
      <<115, 105, 110, 97, 110>>,                    \* sinan
      <<99, 101, 110, 103, 105, 122>>,               \* cengiz
      <<98, 97, 116, 117, 104, 97, 110>>,            \* batuhan
      <<121, 117, 110, 117, 115>>,                   \* yunus
      <<114, 101, 99, 101, 112>>,                    \* recep
      <<101, 109, 105, 114>>,                        \* emir
      <<111, 109, 101, 114>>,                        \* omer
      <<121, 97, 115, 105, 110>>,                    \* yasin
      <<116, 97, 104, 97>>,                          \* taha
      <<116, 117, 110, 99, 97, 121>>,                \* tuncay
      <<115, 97, 109, 101, 100>>,                    \* samed
      <<115, 97, 109, 101, 116>>,                    \* samet
      <<105, 115, 109, 97, 105, 108>>,               \* ismail
      <<97, 98, 100, 117, 108, 108, 97, 104>>,       \* abdullah
      <<97, 98, 100, 117, 108>>,                     \* abdul
      <<97, 100, 101, 109>>,                         \* adem
      <<101, 110, 101, 115>>,                        \* enes
      <<104, 97, 107, 97, 110>>,                     \* hakan
      <<111, 109, 101, 114>>,                        \* omer
      <<117, 103, 117, 114>>,                        \* ugur
      <<97, 104, 109, 101, 116, 99, 97, 110>>,       \* ahmetcan
      <<109, 101, 104, 109, 101, 116, 97, 108, 105>>, \* mehmetali
      <<111, 114, 104, 97, 110>>,                    \* orhan
      <<111, 122, 97, 110>>,                         \* ozan
      <<116, 97, 109, 101, 114>>,                    \* tamer
      <<116, 111, 108, 103, 97>>,                    \* tolga
      <<111, 122, 103, 117, 114>>                    \* ozgur
    }

female_names ==
    {
      <<97, 121, 351, 101>>,                         \* ay[U+015F]e
      <<102, 97, 116, 109, 97>>,                     \* fatma
      <<122, 101, 121, 110, 101, 112>>,              \* zeynep
      <<101, 108, 105, 102>>,                        \* elif
      <<98, 252, 351, 114, 97>>,                     \* b[U+00FC][U+015F]ra
      <<109, 101, 114, 118, 101>>,                   \* merve
      <<109, 101, 108, 105, 107, 101>>,              \* melike
      <<97, 121, 351, 101, 103, 252, 108>>,          \* ay[U+015F]eg[U+00FC]l
      <<101, 115, 114, 97>>,                         \* esra
      <<104, 105, 108, 97, 108>>,                    \* hilal
      <<115, 101, 110, 97>>,                         \* sena
      <<109, 101, 108, 105, 115>>,                   \* melis
      <<115, 101, 108, 105, 110>>,                   \* selin
      <<107, 252, 98, 114, 97>>,                     \* k[U+00FC]bra
      <<98, 101, 121, 122, 97>>,                     \* beyza
      <<109, 101, 108, 116, 101, 109>>,              \* meltem
      <<121, 97, 115, 101, 109, 105, 110>>,          \* yasemin
      <<246, 122, 103, 101>>,                        \* [U+00F6]zge
      <<109, 101, 108, 105, 107, 101>>,              \* melike
      <<98, 97, 110, 117>>,                          \* banu
      <<100, 117, 121, 103, 117>>,                   \* duygu
      <<103, 252, 108>>,                             \* g[U+00FC]l
      <<101, 99, 101>>,                              \* ece
      <<115, 101, 118, 100, 97>>,                    \* sevda
      <<115, 252, 109, 101, 121, 121, 101>>,         \* s[U+00FC]meyye
      <<115, 101, 104, 101, 114>>,                   \* seher
      <<114, 97, 98, 105, 97>>,                      \* rabia
      <<104, 252, 109, 101, 121, 114, 97>>,          \* h[U+00FC]meyra
      <<104, 97, 122, 97, 108>>,                     \* hazal
      <<97, 121, 351, 101, 110, 117, 114>>,          \* ay[U+015F]enur
      <<110, 105, 115, 97>>,                         \* nisa
      <<97, 121, 351, 101>>,                         \* ay[U+015F]e
      <<121, 97, 114, 101, 110>>,                    \* yaren
      <<103, 97, 121, 101>>,                         \* gaye
      <<108, 101, 121, 108, 97>>,                    \* leyla
      <<115, 101, 109, 97>>,                         \* sema
      <<115, 101, 100, 97>>,                         \* seda
      <<115, 101, 118, 105, 108>>,                   \* sevil
      <<116, 117, 287, 231, 101>>,                   \* tu[U+011F][U+00E7]e
      <<115, 105, 110, 101, 109>>,                   \* sinem
      <<246, 122, 108, 101, 109>>,                   \* [U+00F6]zlem
      <<97, 121, 231, 97>>,                          \* ay[U+00E7]a
      <<97, 121, 98, 252, 107, 101>>,                \* ayb[U+00FC]ke
      <<98, 101, 121, 122, 97, 110, 117, 114>>       \* beyzanur
    }

\* Fault variant of unisex_names: "ahmet" is listed here as well as in
\* male_names.
unisex_names_overlapping ==
    {
      <<97, 104, 109, 101, 116>>,                    \* ahmet
      <<100, 101, 110, 105, 122>>                    \* deniz
    }

unisex_names ==
    {
      <<100, 101, 110, 105, 122>>,                   \* deniz
      <<100, 101, 114, 121, 97>>,                    \* derya
      <<100, 111, 287, 97, 110>>,                    \* do[U+011F]an
      <<100, 111, 287, 97>>,                         \* do[U+011F]a
      <<101, 118, 114, 101, 110>>,                   \* evren
      <<105, 108, 104, 97, 110>>,                    \* ilhan
      <<111, 108, 99, 97, 121>>,                     \* olcay
      <<117, 109, 117, 116>>,                        \* umut
      <<115, 101, 118, 103, 105>>,                   \* sevgi
      <<115, 111, 110, 103, 252, 108>>,              \* song[U+00FC]l
      <<100, 105, 108, 97, 114, 97>>                 \* dilara
    }

---------------------------------------------------------------------------
(* Lines 32-37: collections.Counter and the three sums.                    *)

Range(s) == {s[i] : i \in DOMAIN s}

\* Fault variant of Counter: set(names) in place of Counter(names), every
\* distinct name counted once.
CounterDistinct(ns) == [t \in Range(ns) |-> 1]

\* Counter(names): each distinct element mapped to its number of occurrences.
Counter(ns) ==
    [t \in Range(ns) |-> Cardinality({i \in DOMAIN ns : ns[i] = t})]

RECURSIVE SumOver(_, _)
SumOver(cnts, keys) ==
    IF keys = {} THEN 0
    ELSE LET k == CHOOSE x \in keys : TRUE
         IN  cnts[k] + SumOver(cnts, keys \ {k})

\* sum(count for name, count in counts.items() if name in label_set)
CountIn(cnts, label_set) ==
    SumOver(cnts, {k \in DOMAIN cnts : k \in label_set})

---------------------------------------------------------------------------
(* IEEE-754 double arithmetic on bit sequences (most significant first).   *)

Zeros(n) == [i \in 1..n |-> 0]

\* The w-bit binary numeral of n.
RECURSIVE NatBits(_, _)
NatBits(n, w) ==
    IF w = 0 THEN <<>> ELSE Append(NatBits(n \div 2, w - 1), n % 2)

RECURSIVE BitsToNat(_)
BitsToNat(b) ==
    IF b = <<>> THEN 0
    ELSE 2 * BitsToNat(SubSeq(b, 1, Len(b) - 1)) + b[Len(b)]

RECURSIVE BitLen(_)
BitLen(n) == IF n = 0 THEN 0 ELSE 1 + BitLen(n \div 2)

RECURSIVE StripZeros(_)
StripZeros(b) ==
    IF b # <<>> /\ Head(b) = 0 THEN StripZeros(Tail(b)) ELSE b

\* a[1..i] + b[1..i] + c as i+1 bits (a and b of equal length).
RECURSIVE AddFrom(_, _, _, _)
AddFrom(a, b, i, c) ==
    IF i = 0 THEN <<c>>
    ELSE LET s == a[i] + b[i] + c
         IN  IF s >= 2
             THEN Append(AddFrom(a, b, i - 1, 1), s - 2)
             ELSE Append(AddFrom(a, b, i - 1, 0), s)

\* a[1..i] * k + c as i + BitLen(k) bits.
RECURSIVE MulFrom(_, _, _, _)
MulFrom(a, k, i, c) ==
    IF i = 0 THEN NatBits(c, BitLen(k))
    ELSE LET v == a[i] * k + c
         IN  IF v = 0
             THEN Append(MulFrom(a, k, i - 1, 0), 0)
             ELSE Append(MulFrom(a, k, i - 1, v \div 2), v % 2)

FloatZero == [kind |-> "float", e |-> 0, m |-> Zeros(53)]

\* The int 0 of the else branches of lines 41 and 42.
IntZero == [kind |-> "int", e |-> 0, m |-> <<>>]

IsZero(x) == x.kind = "int" \/ x.m = Zeros(53)

\* The double nearest to the positive number whose binary numeral is b
\* (leading bit 1, of weight 2^e), ties to even.
RoundToDouble(b, e) ==
    IF Len(b) <= 53
    THEN [kind |-> "float", e |-> e, m |-> b \o Zeros(53 - Len(b))]
    ELSE LET keep   == SubSeq(b, 1, 53)
             sticky == \E i \in 55..Len(b) : b[i] = 1
             up     == b[54] = 1 /\ (sticky \/ keep[53] = 1)
             inc    == AddFrom(keep, Zeros(53), 53, 1)
         IN  IF ~up THEN [kind |-> "float", e |-> e, m |-> keep]
             ELSE IF inc[1] = 1
                  THEN [kind |-> "float", e |-> e + 1, m |-> SubSeq(inc, 1, 53)]
                  ELSE [kind |-> "float", e |-> e, m |-> SubSeq(inc, 2, 54)]

\* n bits of the binary expansion of r / b (0 <= r < b), and the remainder.
RECURSIVE QuotBits(_, _, _)
QuotBits(r, b, n) ==
    IF n = 0 THEN <<>>
    ELSE IF 2 * r >= b
         THEN <<1>> \o QuotBits(2 * r - b, b, n - 1)
         ELSE <<0>> \o QuotBits(2 * r, b, n - 1)

RECURSIVE QuotRem(_, _, _)
QuotRem(r, b, n) ==
    IF n = 0 THEN r
    ELSE IF 2 * r >= b
         THEN QuotRem(2 * r - b, b, n - 1)
         ELSE QuotRem(2 * r, b, n - 1)

\* Scale a / b into [1, 2): <<a', b', e>> with a / b = (a' / b') * 2^e.
RECURSIVE Scale(_, _, _)
Scale(a, b, e) ==
    IF a < b THEN Scale(2 * a, b, e - 1)
    ELSE IF a >= 2 * b THEN Scale(a, 2 * b, e + 1)
    ELSE <<a, b, e>>

\* int / int: the correctly rounded quotient (a >= 0, b > 0).
TrueDiv(a, b) ==
    IF a = 0 THEN FloatZero
    ELSE LET s    == Scale(a, b, 0)
             r    == s[1] - s[2]
             q    == <<1>> \o QuotBits(r, s[2], 53)
             rest == IF QuotRem(r, s[2], 53) = 0 THEN 0 ELSE 1
         IN  RoundToDouble(Append(q, rest), s[3])

\* float * int: the int converts exactly (k < 2^53) and the product of the
\* two doubles is correctly rounded.
FloatMulInt(x, k) ==
    IF IsZero(x) \/ k = 0 THEN FloatZero
    ELSE LET p == StripZeros(MulFrom(x.m, k, 53, 0))
         IN  RoundToDouble(p, x.e + Len(p) - 53)

\* x + y for x, y >= 0 (int 0 + int 0 stays an int).
FloatAdd(x, y) ==
    IF x.kind = "int" /\ y.kind = "int" THEN IntZero
    ELSE IF IsZero(x) THEN (IF IsZero(y) THEN FloatZero ELSE y)
    ELSE IF IsZero(y) THEN x
    ELSE LET hi == IF x.e >= y.e THEN x ELSE y
             lo == IF x.e >= y.e THEN y ELSE x
             d  == hi.e - lo.e
             s  == StripZeros(AddFrom(hi.m \o Zeros(d), Zeros(d) \o lo.m, 53 + d, 0))
         IN  RoundToDouble(s, hi.e + Len(s) - (53 + d))

\* Fault variant of RatioOf: the fraction, not the percentage.
RatioOfFraction(count, tot) ==
    IF tot # 0 THEN TrueDiv(count, tot) ELSE IntZero

\* count / total * 100 if total else 0
RatioOf(count, tot) ==
    IF tot # 0 THEN FloatMulInt(TrueDiv(count, tot), 100) ELSE IntZero

---------------------------------------------------------------------------
(* The names file.  A line is what iterating over the text file yields:    *)
(* the characters of the line followed by its newline (code point 10).     *)

RawAhmet           == <<65, 104, 109, 101, 116, 10>>                  \* "Ahmet"
RawAyseTrailing    == <<97, 121, 351, 101, 32, 10>>                   \* "ay[U+015F]e "
RawAyseCapital     == <<65, 121, 351, 101, 10>>                       \* "Ay[U+015F]e"
RawUnknown         == <<85, 78, 75, 78, 79, 87, 78, 78, 65, 77, 69, 10>>  \* "UNKNOWNNAME"
RawDeniz           == <<100, 101, 110, 105, 122, 10>>                 \* "deniz"
RawBlank           == <<32, 10>>                                      \* " "
RawDigits          == <<52, 50, 10>>                                  \* "42"
RawIsmailDotted    == <<304, 115, 109, 97, 105, 108, 10>>             \* "[U+0130]smail"

RawLines ==
    {RawAhmet, RawAyseTrailing, RawAyseCapital, RawUnknown, RawDeniz, RawBlank,
     RawDigits, RawIsmailDotted}

RECURSIVE SeqsUpTo(_, _)
SeqsUpTo(S, n) ==
    IF n = 0 THEN {<<>>}
    ELSE LET shorter == SeqsUpTo(S, n - 1)
         IN  shorter \cup {Append(s, x) : s \in shorter, x \in S}

Repeat(x, n) == [i \in 1..n |-> x]

\* "missing" and "unreadable": open() fails; "undecodable": the file opens
\* but its bytes are not UTF-8, so iterating over it fails.
FileStatuses == {"ok", "missing", "unreadable", "undecodable"}

\* Nothing is assigned before line 5 runs.
Unassigned ==
    /\ pc = "load"
    /\ exception = "none"
    /\ bound = {}
    /\ names = <<>>
    /\ counts = <<>>
    /\ male_count = 0
    /\ female_count = 0
    /\ excluded_count = 0
    /\ total = 0
    /\ male_ratio = IntZero
    /\ female_ratio = IntZero

\* Any file of at most MaxLines lines drawn from RawLines, or no file.
Init ==
    /\ file_status \in FileStatuses
    /\ IF file_status = "ok"
       THEN file_lines \in SeqsUpTo(RawLines, MaxLines)
       ELSE file_lines = <<>>
    /\ Unassigned

\* Files of m male lines followed by f female lines, m, f <= MaxCount.
InitCounts ==
    /\ file_status \in FileStatuses
    /\ IF file_status = "ok"
       THEN \E m \in 0..MaxCount, f \in 0..MaxCount :
                file_lines = Repeat(RawAhmet, m) \o Repeat(RawAyseTrailing, f)
       ELSE file_lines = <<>>
    /\ Unassigned

---------------------------------------------------------------------------
(* The statements of the script, in order.                                 *)

\* open() raises FileNotFoundError or PermissionError (both OSError); the
\* iteration of line 6 raises UnicodeDecodeError.
OpenError(status) ==
    IF status = "missing" THEN "FileNotFoundError"
    ELSE IF status = "unreadable" THEN "PermissionError"
    ELSE "UnicodeDecodeError"

\* Fault variant of LoadFile: the exception is swallowed and the script goes
\* on with an empty list.
LoadFileSwallowingError ==
    /\ pc = "load"
    /\ names' = IF file_status = "ok" THEN ReadNames(file_lines) ELSE <<>>
    /\ bound' = bound \cup {"names"}
    /\ pc' = "filter"
    /\ UNCHANGED <<file_status, file_lines, exception, counts, male_count,
                   female_count, excluded_count, total, male_ratio, female_ratio>>

\* Lines 5-6: open the file and build names; no exception is caught, and
\* names is assigned only once the whole comprehension has been evaluated.
LoadFile ==
    /\ pc = "load"
    /\ IF file_status = "ok"
       THEN /\ names' = ReadNames(file_lines)
            /\ bound' = bound \cup {"names"}
            /\ pc' = "filter"
            /\ UNCHANGED exception
       ELSE /\ exception' = OpenError(file_status)
            /\ pc' = "raised"
            /\ UNCHANGED <<names, bound>>
    /\ UNCHANGED <<file_status, file_lines, counts, male_count, female_count,
                   excluded_count, total, male_ratio, female_ratio>>

\* Line 9
RemoveEmpty ==
    /\ pc = "filter"
    /\ names' = DropEmpty(names)
    /\ pc' = "count"
    /\ UNCHANGED <<file_status, file_lines, exception, bound, counts, male_count,
                   female_count, excluded_count, total, male_ratio, female_ratio>>

\* Line 32
CountOccurrences ==
    /\ pc = "count"
    /\ counts' = Counter(names)
    /\ bound' = bound \cup {"counts"}
    /\ pc' = "male_count"
    /\ UNCHANGED <<file_status, file_lines, exception, names, male_count,
                   female_count, excluded_count, total, male_ratio, female_ratio>>

\* Line 35
CountMale ==
    /\ pc = "male_count"
    /\ male_count' = CountIn(counts, male_names)
    /\ bound' = bound \cup {"male_count"}
    /\ pc' = "female_count"
    /\ UNCHANGED <<file_status, file_lines, exception, names, counts,
                   female_count, excluded_count, total, male_ratio, female_ratio>>

\* Line 36
CountFemale ==
    /\ pc = "female_count"
    /\ female_count' = CountIn(counts, female_names)
    /\ bound' = bound \cup {"female_count"}
    /\ pc' = "excluded_count"
    /\ UNCHANGED <<file_status, file_lines, exception, names, counts, male_count,
                   excluded_count, total, male_ratio, female_ratio>>

\* Line 37
CountExcluded ==
    /\ pc = "excluded_count"
    /\ excluded_count' = CountIn(counts, unisex_names)
    /\ bound' = bound \cup {"excluded_count"}
    /\ pc' = "total"
    /\ UNCHANGED <<file_status, file_lines, exception, names, counts, male_count,
                   female_count, total, male_ratio, female_ratio>>

\* Line 40
Total ==
    /\ pc = "total"
    /\ total' = male_count + female_count
    /\ bound' = bound \cup {"total"}
    /\ pc' = "male_ratio"
    /\ UNCHANGED <<file_status, file_lines, exception, names, counts, male_count,
                   female_count, excluded_count, male_ratio, female_ratio>>

\* Line 41
MaleRatio ==
    /\ pc = "male_ratio"
    /\ male_ratio' = RatioOf(male_count, total)
    /\ bound' = bound \cup {"male_ratio"}
    /\ pc' = "female_ratio"
    /\ UNCHANGED <<file_status, file_lines, exception, names, counts, male_count,
                   female_count, excluded_count, total, female_ratio>>

\* Line 42
FemaleRatio ==
    /\ pc = "female_ratio"
    /\ female_ratio' = RatioOf(female_count, total)
    /\ bound' = bound \cup {"female_ratio"}
    /\ pc' = "result"
    /\ UNCHANGED <<file_status, file_lines, exception, names, counts, male_count,
                   female_count, excluded_count, total, male_ratio>>

\* Line 44: the tuple of results is evaluated and the script ends normally.
Result ==
    /\ pc = "result"
    /\ pc' = "done"
    /\ UNCHANGED <<file_status, file_lines, exception, bound, names, counts,
                   male_count, female_count, excluded_count, total, male_ratio,
                   female_ratio>>

Next ==
    \/ LoadFile
    \/ RemoveEmpty
    \/ CountOccurrences
    \/ CountMale
    \/ CountFemale
    \/ CountExcluded
    \/ Total
    \/ MaleRatio
    \/ FemaleRatio
    \/ Result

Spec == Init /\ [][Next]_vars

SpecCounts == InitCounts /\ [][Next]_vars

---------------------------------------------------------------------------
(* Vocabulary of the properties.                                           *)

\* The lines of the file whose normal form is in S.
LinesIn(S) == {i \in DOMAIN file_lines : Normalize(file_lines[i]) \in S}

\* The lines of the file whose normal form is not the empty string.
TokenLines == {i \in DOMAIN file_lines : Normalize(file_lines[i]) # <<>>}

Hundred == RoundToDouble(NatBits(100, 7), 6)

\* The doubles next to 100.0: 99.99999999999999 and 100.00000000000001.
HundredPred ==
    [kind |-> "float", e |-> 6, m |-> <<1, 1, 0, 0, 0, 1, 1>> \o [i \in 1..46 |-> 1]]

HundredSucc == [Hundred EXCEPT !.m[53] = 1]

\* x <= y for positive doubles.
FloatLE(x, y) ==
    \/ x.e < y.e
    \/ /\ x.e = y.e
       /\ LET xh == BitsToNat(SubSeq(x.m, 1, 26))
              yh == BitsToNat(SubSeq(y.m, 1, 26))
          IN  \/ xh < yh
              \/ xh = yh /\ BitsToNat(SubSeq(x.m, 27, 53)) <= BitsToNat(SubSeq(y.m, 27, 53))

InPercentRange(x) == IsZero(x) \/ FloatLE(x, Hundred)

\* male_ratio + female_ratio as Python evaluates it.
RatioSum == FloatAdd(male_ratio, female_ratio)

---------------------------------------------------------------------------
(* Properties.                                                             *)

\* C1: when the tally completes, male_count + female_count + excluded_count
\* equals len(names): every remaining token is counted in exactly one of the
\* three categories.
C1_EveryTokenCounted ==
    pc = "done" => male_count + female_count + excluded_count = Len(names)

\* C3: a token in neither the male nor the female set does not abort the run
\* and each occurrence adds exactly 1 to excluded_count: at the end
\* excluded_count is the number of tokens outside both sets.
C3_UnknownTokensExcluded ==
    pc = "done" =>
        excluded_count =
            Cardinality({i \in DOMAIN names : names[i] \notin male_names \cup female_names})

\* C4: whenever male_count + female_count is 0 the run ends in an explicit
\* NoAccountedNames outcome instead of ordinary percentage values.
C4_NoAccountedNamesSignalled ==
    (pc \in {"done", "raised"} /\ "total" \in bound /\ total = 0) =>
        exception = "NoAccountedNames"

\* C5 as stated: whenever male_count + female_count > 0, male_ratio +
\* female_ratio equals 100 and each ratio lies between 0 and 100.
C5_RatiosSumToHundred ==
    (pc = "done" /\ total > 0) =>
        /\ RatioSum = Hundred
        /\ InPercentRange(male_ratio)
        /\ InPercentRange(female_ratio)

\* C5 as amended: whenever male_count + female_count > 0, each ratio lies
\* between 0 and 100 and male_ratio + female_ratio is 100 up to one unit in
\* the last place: 99.99999999999999, 100.0 or 100.00000000000001.
C5_RatiosSumWithinOneUlp ==
    (pc = "done" /\ total > 0) =>
        /\ RatioSum \in {HundredPred, Hundred, HundredSucc}
        /\ InPercentRange(male_ratio)
        /\ InPercentRange(female_ratio)

\* C5 witness: one male and two female names, where the sum of the two
\* ratios is 99.99999999999999.
C5_Witness ==
    /\ pc = "done"
    /\ male_count = 1
    /\ female_count = 2
    /\ RatioSum = HundredPred

\* C6: male_count (female_count) is the number of input lines whose normal
\* form is in the male (female) set, each occurrence counted once; the raw
\* spellings "Ahmet", "ay[U+015F]e " and "Ay[U+015F]e" are counted under
\* their lowercase, trimmed names.
C6_CountsNormalizedWithMultiplicity ==
    pc = "done" =>
        /\ male_count = Cardinality(LinesIn(male_names))
        /\ female_count = Cardinality(LinesIn(female_names))
        /\ male_count >= Cardinality({i \in DOMAIN file_lines : file_lines[i] = RawAhmet})
        /\ female_count >=
             Cardinality({i \in DOMAIN file_lines :
                             file_lines[i] \in {RawAyseTrailing, RawAyseCapital}})

\* C6 witness: the file "Ahmet", "ay[U+015F]e ", "UNKNOWNNAME", "Ay[U+015F]e"
\* ends with male_count = 1 and female_count = 2.
C6_Witness ==
    /\ pc = "done"
    /\ file_lines = <<RawAhmet, RawAyseTrailing, RawUnknown, RawAyseCapital>>
    /\ male_count = 1
    /\ female_count = 2

\* C8: when the names file is missing or unreadable the run ends with the
\* uncaught exception of lines 5-6 before anything is assigned (no counts, no ratios);
\* a readable file never ends that way, so the outcome differs from the one
\* of a readable file with zero accounted names.
C8_MissingFileIsFatal ==
    /\ (file_status # "ok" /\ pc # "load") =>
           /\ pc = "raised"
           /\ exception \in {"FileNotFoundError", "PermissionError", "UnicodeDecodeError"}
           /\ bound = {}
    /\ file_status = "ok" => (pc # "raised" /\ exception = "none")

\* C8 witness: the file is missing and the run has ended.
C8_Witness == file_status = "missing" /\ pc = "raised" /\ exception = "FileNotFoundError"

\* C9: after line 9 no element of names is the empty string and names holds
\* exactly the lines whose normal form is not empty; the empty string is
\* never a key of counts; the three counts together never exceed the number
\* of such lines.
C9_EmptyTokensDropped ==
    /\ ("names" \in bound /\ pc # "filter") =>
           /\ \A i \in DOMAIN names : names[i] # <<>>
           /\ Len(names) = Cardinality(TokenLines)
    /\ "counts" \in bound => <<>> \notin DOMAIN counts
    /\ pc = "done" =>
           male_count + female_count + excluded_count <= Cardinality(TokenLines)

\* C9 witness: a finished run over a file with a whitespace-only line, a line
\* of digits only and at least one name.
C9_Witness ==
    /\ pc = "done"
    /\ \E i, j \in DOMAIN file_lines :
           file_lines[i] = RawBlank /\ file_lines[j] = RawDigits
    /\ names # <<>>

\* C10: the three hard-coded sets are pairwise disjoint, so no token is
\* counted twice and the three counts together never exceed len(names).
C10_DisjointSetsNoDoubleCount ==
    /\ male_names \cap female_names = {}
    /\ male_names \cap unisex_names = {}
    /\ female_names \cap unisex_names = {}
    /\ pc = "done" => male_count + female_count + excluded_count <= Len(names)

\* C10 witness: a finished run in which each of the three counts is positive.
C10_Witness ==
    pc = "done" /\ male_count > 0 /\ female_count > 0 /\ excluded_count > 0

=============================================================================
